---------------------------- MODULE Spec2Model ----------------------------
(***************************************************************************)
(* Page controller of the LogicLayer website (src/script.js, object App).  *)
(*                                                                         *)
(* The controller is event driven: one handler runs to completion before   *)
(* the next begins.  Every handler is one action.  Timers created with     *)
(* setTimeout are kept as sequences of remaining milliseconds, in creation *)
(* order; time passes with Tick, which never steps over a due timer.       *)
(***************************************************************************)
EXTENDS Integers, Sequences, FiniteSets

(***************************************************************************)
(* Program constants.                                                      *)
(***************************************************************************)
headerScrollThreshold == 50
scrollThrottleLimit == 16
SubmitDelay == 1000
ToastDuration == 5000

(***************************************************************************)
(* Bounds of the model.                                                    *)
(***************************************************************************)
MaxSubmits == 2
MaxEntries == 5
MaxEmailLen == 5

(***************************************************************************)
(* Inputs.                                                                 *)
(***************************************************************************)
OriginalLabel == "Send Message"
SendingLabel == "Sending..."
Undefined == "undefined"

Ids == 1..MaxSubmits
\* one element for each class of the selector of animatedElements
CardOrder == <<"service-card", "portfolio-card", "achievement-card", "testimonial-card">>
Cards == {CardOrder[i] : i \in DOMAIN CardOrder}
Keys == {"Escape", "Enter"}
ScrollOffsets == {0, 50, 51, 200}
TextInputs == {"", "Ann"}
EmailInputs == { <<>>,
                 <<"a", "@", "b", ".", "c", "o">>,
                 <<"a", "@", "b">> }
\* the strings the validator is tried on: every string of up to MaxEmailLen
\* of these characters, the four examples of the specification, and
\* strings with other white space; a character outside ASCII is written
\* as its code point
EmailChars == {"a", ".", "@", " "}

RECURSIVE StringsOfLen(_)
StringsOfLen(n) ==
    IF n = 0 THEN {<<>>}
    ELSE {Append(s, c) : s \in StringsOfLen(n - 1), c \in EmailChars}

EmailExamples == { <<"a", "@", "b", ".", "c", "o">>,
                   <<"a", "@", "b">>,
                   <<"a", " ", "b", "@", "c", ".", "c", "o", "m">>,
                   <<"@", "b", ".", "c", "o", "m">>,
                   <<"a", "\r", "@", "b", ".", "c">>,
                   <<"a", "\f", "@", "b", ".", "c">>,
                   <<"a", "@", "b", "\r", ".", "c">>,
                   <<"a", "@", "b", ".", "\t", "c">>,
                   <<"a", "U+00A0", "@", "b", ".", "c">>,
                   <<"a", "@", "b", ".", "c", "U+FEFF">>,
                   <<"a", "@", "U+2028", ".", "c">> }

EmailStrings == UNION {StringsOfLen(n) : n \in 0..MaxEmailLen} \cup EmailExamples

ScrollTickSteps == {8}
FormTickSteps == {500}
LiveTickSteps == {1000}

VARIABLES
    menuOpen,        \* document.body has class 'menu-open'
    scrollY,         \* window.scrollY
    scrollQueued,    \* a scroll event is waiting to be dispatched
    headerScrolled,  \* header has class 'scrolled'
    heroTenths,      \* hero background translateY, in tenths of a pixel
    inThrottle,      \* the closure variable of throttle()
    throttleTimers,  \* outstanding setTimeout(() => inThrottle = false, limit)
    sinceRun,        \* ms since handleScroll last ran (-1: never; capped at two windows)
    form,            \* current contents of the form fields
    buttonText,      \* submitButton.textContent
    buttonDisabled,  \* submitButton.disabled
    pending,         \* handleFormSubmit invocations suspended at the await
    status,          \* per submit event: none, rejected, pending, success, error
    nSubmits,        \* submit events handled so far
    console,         \* the payloads written by console.log('Form Submitted:', data)
    toast,           \* title, message, data-toast-type, class 'show'
    toastTimers,     \* outstanding auto-hide timers
    toastCalls,      \* number of showToast calls so far
    lastArgs,        \* arguments of the latest showToast call
    intersecting,    \* cards currently intersecting the viewport
    observed,        \* cards the IntersectionObserver still observes
    revealed,        \* cards carrying class 'is-visible'
    ioEntries,       \* IntersectionObserverEntry records not yet delivered
    absent,          \* the handles getElementById finds no element for
    initPc,          \* App.init(): "start" before the call, then "done" or "threw"
    steps,           \* the steps of init() completed so far
    uncaught         \* an exception has escaped an event listener

scrollVars == <<scrollY, scrollQueued, headerScrolled, heroTenths, inThrottle,
                throttleTimers, sinceRun>>
formVars == <<form, buttonText, buttonDisabled, pending, status, nSubmits, console>>
toastVars == <<toast, toastTimers, toastCalls, lastArgs>>
ioVars == <<intersecting, observed, revealed, ioEntries>>
pageVars == <<absent, initPc, steps, uncaught>>
vars == <<menuOpen, scrollVars, formVars, toastVars, ioVars, pageVars>>

(***************************************************************************)
(* Helpers on sequences of timers.                                         *)
(***************************************************************************)
Last(s) == s[Len(s)]

Range(s) == {s[i] : i \in DOMAIN s}

Elapse(s, d) == [i \in DOMAIN s |-> s[i] - d]

ElapsePending(s, d) == [i \in DOMAIN s |-> [s[i] EXCEPT !.rem = @ - d]]

Rems == Range(toastTimers) \cup Range(throttleTimers)
            \cup {pending[i].rem : i \in DOMAIN pending}

MinOf(S) == CHOOSE m \in S : \A x \in S : m <= x

Cap(n, c) == IF n > c THEN c ELSE n

(***************************************************************************)
(* Email validation: /^[^\s@]+@[^\s@]+\.[^\s@]+$/.test(s), a string being  *)
(* a sequence of one-character strings.                                    *)
(***************************************************************************)
\* the class \s of a JavaScript regular expression: the WhiteSpace and
\* LineTerminator code points
WhiteSpace == {" ", "\t", "\n", "\r", "\f", "U+000B", "U+00A0", "U+1680",
               "U+2000", "U+2001", "U+2002", "U+2003", "U+2004", "U+2005",
               "U+2006", "U+2007", "U+2008", "U+2009", "U+200A",
               "U+2028", "U+2029", "U+202F", "U+205F", "U+3000", "U+FEFF"}

IsSpaceOrAt(c) == c \in WhiteSpace \cup {"@"}

\* [^\s@]+ matching the whole of s
PlainRun(s) == Len(s) >= 1 /\ \A i \in DOMAIN s : ~IsSpaceOrAt(s[i])

\* variant: the pattern /^[^\s@]+@[^\s@]+$/, no dot required
emailRegexTestNoDot(s) ==
    \E i \in DOMAIN s :
        /\ s[i] = "@"
        /\ PlainRun(SubSeq(s, 1, i - 1))
        /\ PlainRun(SubSeq(s, i + 1, Len(s)))

emailRegexTest(s) ==
    \E i, j \in DOMAIN s :
        /\ i < j
        /\ s[i] = "@"
        /\ s[j] = "."
        /\ PlainRun(SubSeq(s, 1, i - 1))
        /\ PlainRun(SubSeq(s, i + 1, j - 1))
        /\ PlainRun(SubSeq(s, j + 1, Len(s)))

\* !data.firstName || !data.lastName || !data.email || !data.message
MissingRequired(data) ==
    \/ data.firstName = ""
    \/ data.lastName = ""
    \/ data.email = <<>>
    \/ data.message = ""

(***************************************************************************)
(* Toast.                                                                  *)
(***************************************************************************)
ErrRequired == [title |-> "Error",
                message |-> "Please fill in all required fields.",
                type |-> "error"]
ErrEmail == [title |-> "Error",
             message |-> "Please enter a valid email address.",
             type |-> "error"]
SuccessSent == [title |-> "Success",
                message |-> "Your message has been sent successfully!",
                type |-> Undefined]
ErrSubmit == [title |-> "Error",
              message |-> "Something went wrong. Please try again.",
              type |-> "error"]
NoArgs == [title |-> "", message |-> "", type |-> Undefined]

\* variant: the type is written only when it is given, the default is lost
showToastDomNoDefault(t, args) ==
    [title |-> args.title,
     message |-> args.message,
     type |-> IF args.type = Undefined THEN t.type ELSE args.type,
     show |-> TRUE]

\* the toast element after showToast({title, message, type = 'success'})
showToastDom(t, args) ==
    [title |-> args.title,
     message |-> args.message,
     type |-> IF args.type = Undefined THEN "success" ELSE args.type,
     show |-> TRUE]

\* the outstanding hide timers after showToast: the new one is added, the
\* earlier ones are kept (no clearTimeout)
showToastTimers(timers) == Append(timers, ToastDuration)

showToast(args) ==
    /\ toast' = showToastDom(toast, args)
    /\ toastTimers' = showToastTimers(toastTimers)
    /\ toastCalls' = toastCalls + 1
    /\ lastArgs' = args

\* () => this.elements.toast.classList.remove('show')
hideToast(t) == [t EXCEPT !.show = FALSE]

ToastTimerFire ==
    /\ toastTimers # <<>>
    /\ Head(toastTimers) = 0
    /\ toast' = hideToast(toast)
    /\ toastTimers' = Tail(toastTimers)
    /\ UNCHANGED <<menuOpen, scrollVars, formVars, toastCalls, lastArgs, ioVars, pageVars>>

(***************************************************************************)
(* Mobile menu.                                                            *)
(***************************************************************************)
\* variant: the menu is left alone while the submit button is disabled
toggleMobileMenuIdle(open, show) == IF buttonDisabled THEN open ELSE show

\* variant: classList.toggle without the force argument
toggleMobileMenuFlip(open, show) == ~open

\* document.body.classList.toggle('menu-open', show): with the force
\* argument the class is present afterwards iff show
toggleMobileMenu(open, show) == show

ClickMenuToggle ==
    /\ menuOpen' = toggleMobileMenu(menuOpen, TRUE)
    /\ UNCHANGED <<scrollVars, formVars, toastVars, ioVars, pageVars>>

ClickMenuClose ==
    /\ menuOpen' = toggleMobileMenu(menuOpen, FALSE)
    /\ UNCHANGED <<scrollVars, formVars, toastVars, ioVars, pageVars>>

OverlayTargets == {"overlay", "panel"}

\* variant: the click target is not compared with the overlay
overlayClickAnyTarget(target, open) == toggleMobileMenu(open, FALSE)

\* if (e.target === this.elements.mobileMenuOverlay) this.toggleMobileMenu(false)
overlayClick(target, open) ==
    IF target = "overlay" THEN toggleMobileMenu(open, FALSE) ELSE open

ClickOverlay(target) ==
    /\ menuOpen' = overlayClick(target, menuOpen)
    /\ UNCHANGED <<scrollVars, formVars, toastVars, ioVars, pageVars>>

ClickMobileNavLink ==
    /\ menuOpen' = toggleMobileMenu(menuOpen, FALSE)
    /\ UNCHANGED <<scrollVars, formVars, toastVars, ioVars, pageVars>>

(***************************************************************************)
(* Keyboard.                                                               *)
(***************************************************************************)
handleKeyboardMenu(key, open) ==
    IF key = "Escape" /\ open THEN toggleMobileMenu(open, FALSE) ELSE open

\* variant: the toast branch written as an else-if of the menu branch
handleKeyboardToastElse(key, t) ==
    IF key = "Escape" /\ ~menuOpen /\ t.show THEN hideToast(t) ELSE t

handleKeyboardToast(key, t) ==
    IF key = "Escape" /\ t.show THEN hideToast(t) ELSE t

Keydown(key) ==
    /\ menuOpen' = handleKeyboardMenu(key, menuOpen)
    /\ toast' = handleKeyboardToast(key, toast)
    /\ UNCHANGED <<scrollVars, formVars, toastTimers, toastCalls, lastArgs, ioVars, pageVars>>

(***************************************************************************)
(* Contact form.                                                           *)
(***************************************************************************)
FormDefault == [firstName |-> "", lastName |-> "", email |-> <<>>, message |-> ""]

Fields == {"firstName", "lastName", "email", "message"}

InputsOf(f) == IF f = "email" THEN EmailInputs ELSE TextInputs

\* the user types into a field
SetField(f, v) ==
    /\ form[f] # v
    /\ form' = [form EXCEPT ![f] = v]
    /\ UNCHANGED <<menuOpen, scrollVars, buttonText, buttonDisabled, pending,
                   status, nSubmits, console, toastVars, ioVars, pageVars>>

\* variant: the required fields are not checked
validationErrorNoRequired(data) ==
    IF ~emailRegexTest(data.email) THEN ErrEmail ELSE NoArgs

\* variant: the email pattern is not checked
validationErrorNoPattern(data) ==
    IF MissingRequired(data) THEN ErrRequired ELSE NoArgs

\* the toast shown when validation rejects the data, NoArgs when it passes
validationError(data) ==
    IF MissingRequired(data) THEN ErrRequired
    ELSE IF ~emailRegexTest(data.email) THEN ErrEmail
    ELSE NoArgs

\* the invocation suspended at `await new Promise(... setTimeout(resolve, 1000))`
suspendedSubmit(id, data, label) ==
    [id |-> id, data |-> data, originalButtonText |-> label, rem |-> SubmitDelay]

\* handleFormSubmit up to its first return or to the await
handleFormSubmit ==
    /\ nSubmits < MaxSubmits
    /\ nSubmits' = nSubmits + 1
    /\ LET data == form
           id == nSubmits + 1
           err == validationError(data)
       IN  IF err # NoArgs
           THEN /\ showToast(err)
                /\ status' = [status EXCEPT ![id] = "rejected"]
                /\ UNCHANGED <<form, buttonText, buttonDisabled, pending>>
           ELSE /\ pending' = Append(pending, suspendedSubmit(id, data, buttonText))
                /\ buttonText' = SendingLabel
                /\ buttonDisabled' = TRUE
                /\ status' = [status EXCEPT ![id] = "pending"]
                /\ UNCHANGED <<form, toastVars>>
    /\ UNCHANGED <<menuOpen, scrollVars, console, ioVars, pageVars>>

\* variant: the form is not reset
formResetKeeps(f) == f

\* form.reset(): every field back to its default value, which is empty
formReset(f) == FormDefault

\* the label the finally block writes back
restoredLabel(p) == p.originalButtonText

\* variant: the form is read again after the await
loggedDataLive(p) == form

\* the payload logged after the await: the object built before validation
loggedData(p) == p.data

\* handleFormSubmit from the await to its end: try body, then finally
submitSettle ==
    /\ pending # <<>>
    /\ Head(pending).rem = 0
    /\ LET p == Head(pending)
       IN  /\ console' = Append(console, loggedData(p))
           /\ showToast(SuccessSent)
           /\ form' = formReset(form)
           /\ buttonText' = restoredLabel(p)
           /\ buttonDisabled' = FALSE
           /\ status' = [status EXCEPT ![p.id] = "success"]
    /\ pending' = Tail(pending)
    /\ UNCHANGED <<menuOpen, scrollVars, nSubmits, ioVars, pageVars>>

\* variant: the form is reset on failure too
formAfterFailureReset(f) == FormDefault

\* the form fields after the catch block: it does not touch them
formAfterFailure(f) == f

\* handleFormSubmit from the await to its end when the awaited promise
\* rejects: catch block, then finally.  The promise of the script only
\* resolves; this is the handler with a call that can fail in its place.
submitFail ==
    /\ pending # <<>>
    /\ Head(pending).rem = 0
    /\ LET p == Head(pending)
       IN  /\ showToast(ErrSubmit)
           /\ form' = formAfterFailure(form)
           /\ buttonText' = restoredLabel(p)
           /\ buttonDisabled' = FALSE
           /\ status' = [status EXCEPT ![p.id] = "error"]
    /\ pending' = Tail(pending)
    /\ UNCHANGED <<menuOpen, scrollVars, nSubmits, console, ioVars, pageVars>>

(***************************************************************************)
(* Scroll handling.                                                        *)
(***************************************************************************)
\* the user or a smooth scroll moves the page; the browser queues one
\* scroll event
ScrollTo(y) ==
    /\ y # scrollY
    /\ scrollY' = y
    /\ scrollQueued' = TRUE
    /\ UNCHANGED <<menuOpen, headerScrolled, heroTenths, inThrottle, throttleTimers,
                   sinceRun, formVars, toastVars, ioVars, pageVars>>

\* variant: the threshold itself counts as scrolled
headerFlagAtLeast(y) == y >= headerScrollThreshold

\* classList.toggle('scrolled', scrollY > this.config.headerScrollThreshold)
headerFlag(y) == y > headerScrollThreshold

\* translateY(${scrollY * 0.4}px), in tenths of a pixel
heroOffset(y) == y * 4

\* the transform after handleScroll: written only if the page has a
\* .hero-background element
heroAfter(y) == IF "hero-background" \in absent THEN heroTenths ELSE heroOffset(y)

handleScroll ==
    /\ headerScrolled' = headerFlag(scrollY)
    /\ heroTenths' = heroAfter(scrollY)

\* variant: the window is closed after half the limit
throttleDelayHalf(limit) == limit \div 2

\* the delay of the timer that closes the throttle window
throttleDelay(limit) == limit

\* the function returned by throttle(handleScroll, scrollThrottleLimit),
\* called for a scroll event
throttledScrollHandler ==
    /\ scrollQueued
    /\ scrollQueued' = FALSE
    /\ IF ~inThrottle
       THEN /\ handleScroll
            /\ inThrottle' = TRUE
            /\ throttleTimers' = Append(throttleTimers, throttleDelay(scrollThrottleLimit))
            /\ sinceRun' = 0
       ELSE UNCHANGED <<headerScrolled, heroTenths, inThrottle, throttleTimers, sinceRun>>
    /\ UNCHANGED <<menuOpen, scrollY, formVars, toastVars, ioVars, pageVars>>

\* () => inThrottle = false
ThrottleTimerFire ==
    /\ throttleTimers # <<>>
    /\ Head(throttleTimers) = 0
    /\ inThrottle' = FALSE
    /\ throttleTimers' = Tail(throttleTimers)
    /\ UNCHANGED <<menuOpen, scrollY, scrollQueued, headerScrolled, heroTenths,
                   sinceRun, formVars, toastVars, ioVars, pageVars>>

(***************************************************************************)
(* Viewport-entry animation.                                               *)
(***************************************************************************)
\* a card crosses the observer's threshold; the browser records an entry
\* for it while it is observed
CardCrosses(c) ==
    /\ Len(ioEntries) < MaxEntries
    /\ intersecting' = IF c \in intersecting THEN intersecting \ {c}
                       ELSE intersecting \cup {c}
    /\ ioEntries' = IF c \in observed
                    THEN Append(ioEntries, [target |-> c, isIntersecting |-> c \notin intersecting])
                    ELSE ioEntries
    /\ UNCHANGED <<menuOpen, scrollVars, formVars, toastVars, observed, revealed, pageVars>>

\* the targets the callback acts on: entries with entry.isIntersecting
actedOn(entries) ==
    {entries[i].target : i \in {k \in DOMAIN entries : entries[k].isIntersecting}}

\* entry.target.classList.add('is-visible')
addVisible(marked, entries) == marked \cup actedOn(entries)

\* variant: the target stays observed
unobserveNothing(obs, entries) == obs

\* obs.unobserve(entry.target)
unobserve(obs, entries) == obs \ actedOn(entries)

\* the IntersectionObserver callback, called with the recorded entries
observerCallback ==
    /\ ioEntries # <<>>
    /\ revealed' = addVisible(revealed, ioEntries)
    /\ observed' = unobserve(observed, ioEntries)
    /\ ioEntries' = <<>>
    /\ UNCHANGED <<menuOpen, scrollVars, formVars, toastVars, intersecting, pageVars>>

(***************************************************************************)
(* Time.                                                                   *)
(***************************************************************************)
Tick(d) ==
    /\ d > 0
    /\ Rems # {} => d <= MinOf(Rems)
    /\ Rems # {} \/ sinceRun \in 0..(2 * scrollThrottleLimit - 1)
    /\ toastTimers' = Elapse(toastTimers, d)
    /\ throttleTimers' = Elapse(throttleTimers, d)
    /\ pending' = ElapsePending(pending, d)
    /\ sinceRun' = IF sinceRun < 0 THEN sinceRun ELSE Cap(sinceRun + d, 2 * scrollThrottleLimit)
    /\ UNCHANGED <<menuOpen, scrollY, scrollQueued, headerScrolled, heroTenths,
                   inThrottle, form, buttonText, buttonDisabled, status, nSubmits,
                   console, toast, toastCalls, lastArgs, ioVars, pageVars>>

(***************************************************************************)
(* Start-up: App.init() on a document that may lack some of the elements.  *)
(***************************************************************************)
\* the elements cacheDOMElements looks up by id; getElementById returns
\* null for an id the document does not have
Handles == {"header", "toast", "mobile-menu-toggle", "mobile-menu-overlay",
            "mobile-menu-close", "contact-form"}

\* the element cacheDOMElements looks up by class and every use tests
Optional == {"hero-background"}

\* the statements of bindEvents, then the remaining calls of init, in order
InitSteps == <<"toggleClick", "closeClick", "overlayClick", "mobileNavLinkClick",
               "navLinkClick", "submit", "scroll", "keydown",
               "setupObservers", "preloadAssets", "pageLoadAnimation">>

\* the handles a step dereferences without a test: addEventListener is
\* called on them directly
dereferenced(step) ==
    CASE step = "toggleClick" -> {"mobile-menu-toggle"}
      [] step = "closeClick" -> {"mobile-menu-close"}
      [] step = "overlayClick" -> {"mobile-menu-overlay"}
      [] OTHER -> {}

\* the handles a step tests before it uses them
guardedBy(step) == IF step = "submit" THEN {"contact-form"} ELSE {}

\* init from step i: a dereference of null throws a TypeError that nothing
\* catches, so no later step runs; a guarded step is skipped
RECURSIVE initFrom(_, _, _)
initFrom(i, missing, done) ==
    IF i > Len(InitSteps) THEN [pc |-> "done", steps |-> done]
    ELSE IF dereferenced(InitSteps[i]) \cap missing # {} THEN [pc |-> "threw", steps |-> done]
    ELSE IF guardedBy(InitSteps[i]) \cap missing # {} THEN initFrom(i + 1, missing, done)
    ELSE initFrom(i + 1, missing, done \cup {InitSteps[i]})

\* observer.observe(el) makes the browser record a first entry per card
initialEntries(inView) ==
    [i \in DOMAIN CardOrder |->
        [target |-> CardOrder[i], isIntersecting |-> CardOrder[i] \in inView]]

\* document.addEventListener('DOMContentLoaded', () => App.init())
AppInit ==
    /\ initPc = "start"
    /\ LET r == initFrom(1, absent, {})
       IN  /\ initPc' = r.pc
           /\ steps' = r.steps
           /\ observed' = IF "setupObservers" \in r.steps THEN Cards ELSE observed
           /\ ioEntries' = IF "setupObservers" \in r.steps
                           THEN initialEntries(intersecting) ELSE ioEntries
    /\ UNCHANGED <<menuOpen, scrollVars, formVars, toastVars, intersecting, revealed,
                   absent, uncaught>>

\* a listener runs only if init got as far as adding it
Bound(step) == step \in steps

OnToggleClick == Bound("toggleClick") /\ ClickMenuToggle

OnCloseClick == Bound("closeClick") /\ ClickMenuClose

OnOverlayClick(target) == Bound("overlayClick") /\ ClickOverlay(target)

\* handleKeyboard without a toast element: the menu branch runs, then
\* this.elements.toast.classList throws
keydownNoToast(key) ==
    /\ menuOpen' = handleKeyboardMenu(key, menuOpen)
    /\ uncaught' = (uncaught \/ key = "Escape")
    /\ UNCHANGED <<scrollVars, formVars, toastVars, ioVars, absent, initPc, steps>>

OnKeydown(key) ==
    /\ Bound("keydown")
    /\ IF "toast" \in absent THEN keydownNoToast(key) ELSE Keydown(key)

\* the throttled handler without a header element: handleScroll throws at
\* its first statement, before inThrottle is set and before the timer
scrollNoHeader ==
    /\ scrollQueued
    /\ scrollQueued' = FALSE
    /\ uncaught' = (uncaught \/ ~inThrottle)
    /\ UNCHANGED <<menuOpen, scrollY, headerScrolled, heroTenths, inThrottle,
                   throttleTimers, sinceRun, formVars, toastVars, ioVars,
                   absent, initPc, steps>>

\* a scroll event no listener waits for
scrollUnheard ==
    /\ scrollQueued
    /\ scrollQueued' = FALSE
    /\ UNCHANGED <<menuOpen, scrollY, headerScrolled, heroTenths, inThrottle,
                   throttleTimers, sinceRun, formVars, toastVars, ioVars, pageVars>>

OnScroll ==
    IF ~Bound("scroll") THEN scrollUnheard
    ELSE IF "header" \in absent THEN scrollNoHeader
    ELSE throttledScrollHandler

\* handleFormSubmit without a toast element: showToast throws at its first
\* statement, so a rejected submission ends in an exception
submitNoToast ==
    /\ nSubmits < MaxSubmits
    /\ nSubmits' = nSubmits + 1
    /\ LET data == form
           id == nSubmits + 1
       IN  IF validationError(data) # NoArgs
           THEN /\ status' = [status EXCEPT ![id] = "rejected"]
                /\ uncaught' = TRUE
                /\ UNCHANGED <<buttonText, buttonDisabled, pending>>
           ELSE /\ pending' = Append(pending, suspendedSubmit(id, data, buttonText))
                /\ buttonText' = SendingLabel
                /\ buttonDisabled' = TRUE
                /\ status' = [status EXCEPT ![id] = "pending"]
                /\ UNCHANGED uncaught
    /\ UNCHANGED <<menuOpen, scrollVars, form, console, toastVars, ioVars,
                   absent, initPc, steps>>

OnSubmit ==
    /\ Bound("submit")
    /\ IF "toast" \in absent THEN submitNoToast ELSE handleFormSubmit

\* after the await without a toast element: console.log, then showToast
\* throws inside try, the catch block logs and its showToast throws again,
\* finally restores the button and the exception leaves the handler
settleNoToast ==
    /\ pending # <<>>
    /\ Head(pending).rem = 0
    /\ LET p == Head(pending)
       IN  /\ console' = Append(console, loggedData(p))
           /\ buttonText' = restoredLabel(p)
           /\ buttonDisabled' = FALSE
           /\ status' = [status EXCEPT ![p.id] = "error"]
    /\ pending' = Tail(pending)
    /\ uncaught' = TRUE
    /\ UNCHANGED <<menuOpen, scrollVars, form, nSubmits, toastVars, ioVars,
                   absent, initPc, steps>>

OnSettle == IF "toast" \in absent THEN settleNoToast ELSE submitSettle

(***************************************************************************)
(* Initial state: the page after App.init().                               *)
(***************************************************************************)
\* the controls of the page as the document delivers them
InitControls(fields) ==
    /\ menuOpen = FALSE
    /\ scrollY = 0
    /\ scrollQueued = FALSE
    /\ headerScrolled = FALSE
    /\ heroTenths = 0
    /\ inThrottle = FALSE
    /\ throttleTimers = <<>>
    /\ sinceRun = -1
    /\ form = fields
    /\ buttonText = OriginalLabel
    /\ buttonDisabled = FALSE
    /\ pending = <<>>
    /\ status = [i \in Ids |-> "none"]
    /\ nSubmits = 0
    /\ console = <<>>
    /\ toast = [title |-> "", message |-> "", type |-> "", show |-> FALSE]
    /\ toastTimers = <<>>
    /\ toastCalls = 0
    /\ lastArgs = NoArgs
    /\ revealed = {}
    /\ uncaught = FALSE

\* a document with every handle, after App.init() has run through
InitLoaded(inView, fields, missing) ==
    /\ InitControls(fields)
    /\ intersecting = inView
    /\ observed = Cards
    /\ ioEntries = initialEntries(inView)
    /\ absent = missing
    /\ initPc = "done"
    /\ steps = Range(InitSteps)

\* a complete document
InitPage(inView, fields) == InitLoaded(inView, fields, {})

\* the page at the top, with or without a .hero-background element
InitScroll == \E missing \in SUBSET Optional : InitLoaded({}, FormDefault, missing)

InitWith(inView) == InitPage(inView, FormDefault)

\* any of the cards may be in view when a complete page loads
InitCards == \E inView \in SUBSET Cards : InitWith(inView)

\* any of the cards may be in view, and the hero background may be missing
Init ==
    \E inView \in SUBSET Cards : \E missing \in SUBSET Optional :
        InitLoaded(inView, FormDefault, missing)

\* the page loaded with every card below the fold
InitTop == InitWith({})

\* the form filled in, with any of the email strings
FilledWith(e) == [firstName |-> "Ann", lastName |-> "Ann", email |-> e, message |-> "Ann"]

\* the form filled in with valid data
InitFilled == InitPage({}, FilledWith(<<"a", "@", "b", ".", "c", "o">>))

InitEmail == \E e \in EmailStrings : InitPage({}, FilledWith(e))

\* the document as loaded, before DOMContentLoaded: any of the handles may
\* be missing, nothing is bound or observed yet
InitStart ==
    \E missing \in SUBSET Handles :
        /\ InitControls(FilledWith(<<"a", "@", "b", ".", "c", "o">>))
        /\ intersecting = {}
        /\ observed = {}
        /\ ioEntries = <<>>
        /\ absent = missing
        /\ initPc = "start"
        /\ steps = {}

(***************************************************************************)
(* Specifications.  The parts of the controller share no state but time,   *)
(* so each part also has a specification of its own.                       *)
(***************************************************************************)
\* time passes until the next timer is due
TickToNext == Rems # {} /\ Tick(MinOf(Rems))

MenuNext ==
    \/ ClickMenuToggle
    \/ ClickMenuClose
    \/ \E target \in OverlayTargets : ClickOverlay(target)
    \/ ClickMobileNavLink

FormNext ==
    \/ \E f \in Fields : \E v \in InputsOf(f) : SetField(f, v)
    \/ handleFormSubmit
    \/ submitSettle
    \/ ToastTimerFire
    \/ \E key \in Keys : Keydown(key)

ScrollNext ==
    \/ \E y \in ScrollOffsets : ScrollTo(y)
    \/ throttledScrollHandler
    \/ ThrottleTimerFire

ObserverNext ==
    \/ \E c \in Cards : CardCrosses(c)
    \/ observerCallback

NextForm == FormNext \/ MenuNext \/ \E d \in FormTickSteps : Tick(d)

NextScroll == ScrollNext \/ \E d \in ScrollTickSteps : Tick(d)

NextObserver == ObserverNext

\* the form and the toast alone, on a coarser clock
NextFormLive == FormNext \/ \E d \in LiveTickSteps : Tick(d)

Next ==
    \/ FormNext
    \/ MenuNext
    \/ ScrollNext
    \/ ObserverNext
    \/ \E d \in FormTickSteps \cup ScrollTickSteps : Tick(d)
    \/ TickToNext

Spec == Init /\ [][Next]_vars

SpecForm == InitTop /\ [][NextForm]_vars

SpecScroll == InitScroll /\ [][NextScroll]_vars

SpecObserver == InitCards /\ [][NextObserver]_vars

\* submissions of the filled form, no editing
NextEmail ==
    \/ handleFormSubmit
    \/ submitSettle
    \/ ToastTimerFire
    \/ \E d \in LiveTickSteps : Tick(d)

SpecEmail == InitEmail /\ [][NextEmail]_vars

\* the form and the toast with a remote call that may fail
NextFormFail == NextFormLive \/ submitFail

SpecFormFail == InitTop /\ [][NextFormFail]_vars

\* the user scrolls only at instants a whole number of seconds before
\* every outstanding submission and toast timer is due
ScrollOnTheSecond(y) ==
    /\ \A r \in Rems \ Range(throttleTimers) : r % SubmitDelay = 0
    /\ ScrollTo(y)

\* submissions of a filled form while the page is scrolled, the menu used
\* and keys pressed
NextBusy ==
    \/ handleFormSubmit
    \/ submitSettle
    \/ ToastTimerFire
    \/ \E key \in Keys : Keydown(key)
    \/ MenuNext
    \/ \E y \in ScrollOffsets : ScrollOnTheSecond(y)
    \/ throttledScrollHandler
    \/ ThrottleTimerFire
    \/ TickToNext

\* start-up and the events that follow it
NextInit ==
    \/ AppInit
    \/ OnToggleClick
    \/ OnCloseClick
    \/ \E target \in OverlayTargets : OnOverlayClick(target)
    \/ \E key \in Keys : OnKeydown(key)
    \/ \E y \in ScrollOffsets : ScrollOnTheSecond(y)
    \/ OnScroll
    \/ ThrottleTimerFire
    \/ \E v \in EmailInputs : SetField("email", v)
    \/ OnSubmit
    \/ OnSettle
    \/ ToastTimerFire
    \/ TickToNext

SpecInit == InitStart /\ [][NextInit]_vars

SpecBusy ==
    /\ InitFilled
    /\ [][NextBusy]_vars
    /\ WF_vars(submitSettle)
    /\ WF_vars(ToastTimerFire)
    /\ WF_vars(ThrottleTimerFire)
    /\ WF_vars(TickToNext)

\* timers fire when due and time passes
Fairness ==
    /\ WF_vars(submitSettle)
    /\ WF_vars(ToastTimerFire)
    /\ WF_vars(\E d \in LiveTickSteps : Tick(d))

SpecFormLive == InitTop /\ [][NextFormLive]_vars /\ Fairness

(***************************************************************************)
(* Properties.                                                             *)
(***************************************************************************)
ValidForm(f) == ~MissingRequired(f) /\ emailRegexTest(f.email)

\* C1: a submit event with all four required fields non-empty and an email
\* the validator accepts is suspended at the simulated call, every
\* suspended submission eventually settles as a success, and the settling
\* step shows the toast 'Success' with type 'success' and clears the form.
C1_SuccessPath ==
    /\ [][(handleFormSubmit /\ ValidForm(form))
            => status'[nSubmits + 1] = "pending"]_vars
    /\ \A i \in Ids : (status[i] = "pending") ~> (status[i] = "success")
    /\ [][\A i \in Ids :
            (status[i] = "pending" /\ status'[i] = "success")
                => /\ toast'.show
                   /\ toast'.title = "Success"
                   /\ toast'.type = "success"
                   /\ form' = FormDefault]_vars

C1_Witness ==
    /\ status[1] = "success"
    /\ toast.show /\ toast.title = "Success" /\ toast.type = "success"
    /\ form = FormDefault

\* C2: a submit event whose data fails validation calls showToast exactly
\* once, with type 'error', starts no simulated call, and leaves the form
\* fields, the submit button's label and its disabled flag as they were.
C2_Rejects ==
    [][(handleFormSubmit /\ ~ValidForm(form))
        => /\ toastCalls' = toastCalls + 1
           /\ Len(toastTimers') = Len(toastTimers) + 1
           /\ toast'.show /\ toast'.type = "error"
           /\ pending' = pending
           /\ form' = form
           /\ buttonText' = buttonText
           /\ buttonDisabled' = buttonDisabled]_vars

C2_Witness ==
    /\ status[1] = "rejected"
    /\ toastCalls = 1
    /\ toast.show /\ toast.type = "error"
    /\ form.firstName = "Ann" /\ form.email = <<"a", "@", "b">>
    /\ ~buttonDisabled /\ buttonText = OriginalLabel /\ pending = <<>>

\* C3: every submission that was suspended at the simulated call ends with
\* the submit button enabled and showing the label it had before any
\* submission began.
C3_ButtonRestored ==
    [][submitSettle => (~buttonDisabled' /\ buttonText' = OriginalLabel)]_vars

\* C4: a showToast call made while an earlier call's 5 second timer is
\* still outstanding leaves the toast visible with the title, message and
\* type of this call; between calls the content never changes and the
\* toast never becomes visible (nothing is queued for later display).
C4_LastWriteWins ==
    /\ [][(toastCalls' = toastCalls + 1 /\ toastTimers # <<>>)
            => /\ toast'.show
               /\ toast'.title = lastArgs'.title
               /\ toast'.message = lastArgs'.message
               /\ toast'.type = (IF lastArgs'.type = Undefined THEN "success"
                                 ELSE lastArgs'.type)]_vars
    /\ [][toastCalls' = toastCalls
            => /\ toast'.title = toast.title
               /\ toast'.message = toast.message
               /\ toast'.type = toast.type
               /\ (toast'.show => toast.show)]_vars

C4_Witness ==
    /\ toastCalls = 2
    /\ status[1] = "rejected" /\ status[2] = "success"
    /\ Len(toastTimers) = 2 /\ toastTimers[1] > 0 /\ toastTimers[2] = ToastDuration
    /\ toast = [title |-> "Success",
                message |-> "Your message has been sent successfully!",
                type |-> "success", show |-> TRUE]

\* C5: a visible toast is hidden only by an Escape key press or by the
\* timer of the latest showToast call, 5 seconds after that call.
C5_ExpiryRestarts ==
    [][(toast.show /\ ~toast'.show)
        => \/ Keydown("Escape")
           \/ (ToastTimerFire /\ Len(toastTimers) = 1)]_vars

\* C6: at most one toast hide timer is scheduled and not yet fired.
C6_OneTimer == Len(toastTimers) <= 1

\* C7: a keydown with key 'Escape' leaves the menu closed and the toast
\* hidden, and changes nothing when the menu is closed and the toast
\* hidden already; a keydown with another key changes nothing.
C7_Escape ==
    [][/\ Keydown("Escape")
            => /\ ~menuOpen' /\ ~toast'.show
               /\ (~menuOpen /\ ~toast.show) => UNCHANGED vars
       /\ \A key \in Keys \ {"Escape"} : Keydown(key) => UNCHANGED vars]_vars

C7_Witness ==
    /\ ~menuOpen
    /\ ~toast.show
    /\ Len(toastTimers) = 1 /\ toastTimers[1] > 0

\* C8: a card with the 'is-visible' marker keeps it and is no longer
\* observed, so no entry is recorded for it again; the callback marks
\* exactly the targets of its intersecting entries, and nothing else ever
\* adds the marker.
C8_OneShot ==
    /\ [](revealed \cap observed = {})
    /\ [](\A i \in DOMAIN ioEntries : ioEntries[i].target \notin revealed)
    /\ [][revealed \subseteq revealed' /\ observed' \subseteq observed]_vars
    /\ [][revealed' # revealed => observerCallback]_vars
    /\ [][observerCallback
            => \A c \in Cards :
                 c \in revealed' <=>
                    \/ c \in revealed
                    \/ \E i \in DOMAIN ioEntries :
                          ioEntries[i].target = c /\ ioEntries[i].isIntersecting]_vars

C8_Witness ==
    \E c \in revealed :
        /\ c \notin intersecting
        /\ c \notin observed
        /\ \E o \in observed : o \in intersecting

\* C9: each execution of handleScroll sets the header's 'scrolled' flag to
\* (scrollY > 50), whatever the flag was before.
C9_HeaderFlag ==
    [][(throttledScrollHandler /\ ~inThrottle)
        => headerScrolled' = (scrollY > 50)]_vars

C9_Witness ==
    /\ sinceRun = 0
    /\ scrollY = 50
    /\ ~headerScrolled
    /\ heroTenths = 200

\* C10: handleScroll runs only for a scroll event that arrives outside a
\* throttle window, at least 16 ms after its previous run, and that event
\* opens a window; an event inside a window runs nothing, then or later;
\* a window closes 16 ms after it opened, and one timer at most is
\* outstanding for it.
C10_Throttle ==
    /\ [](Len(throttleTimers) <= 1 /\ (inThrottle <=> throttleTimers # <<>>))
    /\ [][(throttledScrollHandler /\ ~inThrottle)
            => /\ sinceRun \in {-1} \cup (16..32)
               /\ sinceRun' = 0
               /\ headerScrolled' = headerFlag(scrollY)
               /\ heroTenths' = (IF "hero-background" \in absent THEN heroTenths
                                 ELSE scrollY * 4)
               /\ inThrottle'
               /\ throttleTimers' = <<16>>]_vars
    /\ [][(throttledScrollHandler /\ inThrottle)
            => UNCHANGED <<headerScrolled, heroTenths, inThrottle,
                           throttleTimers, sinceRun>>]_vars
    /\ [][(headerScrolled' # headerScrolled \/ heroTenths' # heroTenths)
            => (throttledScrollHandler /\ ~inThrottle)]_vars
    /\ [][(inThrottle /\ ~inThrottle') => sinceRun = 16]_vars

C10_Witness ==
    /\ inThrottle
    /\ sinceRun = 8
    /\ ~scrollQueued
    /\ scrollY = 200
    /\ ~headerScrolled

\* C13: a click on the menu toggle leaves the menu open and a click on the
\* close control leaves it closed, whatever it was before, so a second
\* click on the same control changes nothing.
C13_MenuAbsolute ==
    /\ [][ClickMenuToggle => menuOpen']_vars
    /\ [][ClickMenuClose => ~menuOpen']_vars
    /\ [][(menuOpen /\ ClickMenuToggle) => UNCHANGED vars]_vars
    /\ [][(~menuOpen /\ ClickMenuClose) => UNCHANGED vars]_vars

C13_Witness ==
    /\ menuOpen
    /\ ENABLED (ClickMenuToggle /\ menuOpen')

\* C14: a click on the overlay closes the menu when its target is the
\* overlay itself and leaves the menu as it was when its target is a child
\* of the overlay; a click on an in-menu navigation link closes the menu.
C14_OverlayClick ==
    /\ [][ClickOverlay("overlay") => ~menuOpen']_vars
    /\ [][ClickOverlay("panel") => UNCHANGED vars]_vars
    /\ [][ClickMobileNavLink => ~menuOpen']_vars

C14_Witness ==
    /\ menuOpen
    /\ ENABLED (ClickOverlay("panel") /\ menuOpen')
    /\ ENABLED (ClickOverlay("overlay") /\ ~menuOpen')

\* C17: whenever no throttle window is open and no scroll event is waiting,
\* the header's 'scrolled' flag equals (scrollY > 50).
C17_HeaderFollows ==
    (~inThrottle /\ ~scrollQueued) => (headerScrolled = (scrollY > 50))

\* C18: the submit button is disabled and labelled 'Sending...' exactly
\* when a submission is suspended at the simulated call.
C18_DisabledWhilePending ==
    (buttonDisabled /\ buttonText = SendingLabel) <=> (pending # <<>>)

\* C20: a rejected submit event calls showToast once, with type 'error'; an
\* accepted one calls it not at all while suspended and once when it
\* settles; so the number of showToast calls, and of hide timers started,
\* equals the number of rejected plus settled submissions.
C20_OneToastPerSubmit ==
    /\ [](toastCalls = Cardinality({i \in Ids : status[i] \in {"rejected", "success", "error"}}))
    /\ [][(handleFormSubmit /\ ~ValidForm(form))
            => /\ toastCalls' = toastCalls + 1
               /\ Len(toastTimers') = Len(toastTimers) + 1
               /\ toast'.type = "error"]_vars
    /\ [][(handleFormSubmit /\ ValidForm(form))
            => /\ UNCHANGED <<toast, toastTimers, toastCalls>>
               /\ status'[nSubmits + 1] = "pending"]_vars
    /\ [][\A i \in Ids :
            (status[i] = "pending" /\ status'[i] # "pending")
                => /\ toastCalls' = toastCalls + 1
                   /\ Len(toastTimers') = Len(toastTimers) + 1]_vars
    /\ [][toastCalls' # toastCalls
            => \E i \in Ids : status'[i] # status[i]]_vars

C20_Witness ==
    /\ status[1] = "rejected"
    /\ status[2] = "success"
    /\ toastCalls = 2

IsSpace(c) == c \in WhiteSpace

\* the strings the specification says are accepted
AcceptedByClaim(s) ==
    /\ \A i \in DOMAIN s : ~IsSpace(s[i])
    /\ Cardinality({i \in DOMAIN s : s[i] = "@"}) = 1
    /\ LET at == CHOOSE i \in DOMAIN s : s[i] = "@"
       IN  /\ at > 1
           /\ \E j \in (at + 2)..(Len(s) - 1) : s[j] = "."

\* C12: with the other required fields filled in, a submit event passes
\* validation exactly when the email has no whitespace, exactly one '@', a
\* non-empty part before it, and after it a '.' that is neither the first
\* nor the last character of that part; 'a@b.co' passes and 'a@b',
\* 'a b@c.com' and '@b.com' are rejected with the invalid-email toast.
C12_Validator ==
    /\ [][(handleFormSubmit /\ form.firstName # "" /\ form.lastName # "" /\ form.message # "")
            => (status'[nSubmits + 1] = "pending" <=> AcceptedByClaim(form.email))]_vars
    /\ [][(handleFormSubmit /\ form = FilledWith(<<"a", "@", "b", ".", "c", "o">>))
            => status'[nSubmits + 1] = "pending"]_vars
    /\ [][(handleFormSubmit /\ form \in { FilledWith(<<"a", "@", "b">>),
                                          FilledWith(<<"a", " ", "b", "@", "c", ".", "c", "o", "m">>),
                                          FilledWith(<<"@", "b", ".", "c", "o", "m">>) })
            => (status'[nSubmits + 1] = "rejected" /\ lastArgs' = ErrEmail)]_vars

C12_Witness ==
    /\ form.email = <<"@", "b", ".", "c", "o", "m">>
    /\ status[1] = "rejected"
    /\ toast.show /\ toast.message = "Please enter a valid email address."

\* the snapshot held by the suspended submission of submit event i, in a
\* one-element set, or the empty set when it is not suspended
SnapshotOf(q, i) == {q[k].data : k \in {n \in DOMAIN q : q[n].id = i}}

\* C19: the payload of a submission is the form contents at its submit
\* event; edits made while it is suspended do not change it; when it
\* settles that payload is logged and the fields are cleared, edits
\* included.
C19_Snapshot ==
    /\ [][(handleFormSubmit /\ ValidForm(form))
            => Last(pending').data = form]_vars
    /\ [][\A i \in Ids :
            (SnapshotOf(pending, i) # {} /\ SnapshotOf(pending', i) # {})
                => SnapshotOf(pending', i) = SnapshotOf(pending, i)]_vars
    /\ [][submitSettle
            => /\ console' = Append(console, Head(pending).data)
               /\ ValidForm(Head(pending).data)
               /\ form' = FormDefault]_vars

C19_Witness ==
    /\ Len(console) = 1
    /\ console[1] = FilledWith(<<"a", "@", "b", ".", "c", "o">>)
    /\ Len(pending) = 1
    /\ pending[1].data = console[1]
    /\ form.firstName = "" /\ form.message = "Ann"

\* C16: when the awaited call of a submission rejects, the handler calls
\* showToast once, with the type 'error', shows no success toast, logs no
\* payload and leaves the form fields as they were.
C16_FailureToast ==
    /\ [][\A i \in Ids :
            (status[i] = "pending" /\ status'[i] = "error")
                => /\ toastCalls' = toastCalls + 1
                   /\ Len(toastTimers') = Len(toastTimers) + 1
                   /\ toast' = [title |-> "Error",
                                message |-> "Something went wrong. Please try again.",
                                type |-> "error", show |-> TRUE]
                   /\ form' = form
                   /\ console' = console]_vars
    /\ [][submitFail => status'[Head(pending).id] = "error"]_vars

C16_Witness ==
    /\ status[1] = "error"
    /\ toastCalls = 1
    /\ toast.show /\ toast.type = "error"
    /\ form = FilledWith(<<"a", "@", "b", ".", "c", "o">>)
    /\ console = <<>>
    /\ ~buttonDisabled

\* C15: with a submission suspended at the simulated call, a scroll event,
\* a menu click and an Escape key press are handled as at any other time:
\* each handler can run, has the effect on header, menu and toast that its
\* own inputs determine, and leaves the submission alone; the suspended
\* submission settles afterwards.
C15_NotBlocked ==
    /\ [](pending # <<>>
            => /\ ENABLED (ClickMenuToggle /\ menuOpen')
               /\ ENABLED (ClickMenuClose /\ ~menuOpen')
               /\ ENABLED (Keydown("Escape") /\ ~menuOpen' /\ ~toast'.show)
               /\ scrollQueued => ENABLED throttledScrollHandler)
    /\ [][ClickMenuToggle => (menuOpen' /\ UNCHANGED <<scrollVars, formVars, toastVars>>)]_vars
    /\ [][ClickMenuClose => (~menuOpen' /\ UNCHANGED <<scrollVars, formVars, toastVars>>)]_vars
    /\ [][Keydown("Escape")
            => /\ ~menuOpen'
               /\ toast' = [toast EXCEPT !.show = FALSE]
               /\ UNCHANGED <<scrollVars, formVars, toastTimers>>]_vars
    /\ [][throttledScrollHandler
            => /\ headerScrolled' = (IF inThrottle THEN headerScrolled ELSE scrollY > 50)
               /\ UNCHANGED <<menuOpen, formVars, toastVars>>]_vars
    /\ \A i \in Ids : (status[i] = "pending") ~> (status[i] = "success")

C15_Witness ==
    /\ pending # <<>>
    /\ Head(pending).rem \in 1..(SubmitDelay - 1)
    /\ sinceRun = 0
    /\ headerScrolled
    /\ menuOpen
    /\ ~toast.show /\ Len(toastTimers) = 1 /\ toastTimers[1] > 0

\* the handles the listener or call added by a step works on
dependsOn(step) == dereferenced(step) \cup guardedBy(step)

\* C11: whichever handles the document lacks, init() raises no exception
\* and completes exactly the steps that depend on no absent handle, and no
\* later event raises an exception either.
C11_Degrades ==
    initPc # "start"
        => /\ initPc = "done"
           /\ steps = {st \in Range(InitSteps) : dependsOn(st) \cap absent = {}}
           /\ ~uncaught
=============================================================================
